---- MODULE Spec2Model ----
(***************************************************************************)
(* Latency hedging middleware (lib/hedge/src/lib.rs).                      *)
(*                                                                         *)
(* Hedge::call starts the original request and arms a delay at the         *)
(* configured latency percentile of the read side of a rotating histogram. *)
(* ResponseFuture::poll races the original future against a hedge future   *)
(* that is issued once the delay has fired, the inner service is ready and *)
(* the policy permits it.  Time is counted in abstract clock ticks.        *)
(***************************************************************************)
EXTENDS Integers, Sequences, FiniteSets

(* ------------------------------ bounds -------------------------------- *)

\* The clock runs from 0 to MaxTime ticks.
MaxTime == 2


(* ------------------------- program parameters ------------------------- *)

\* min_samples argument of Histogram::percentile in Hedge::call.
MinSamples == 10

\* Hedge.latency_percentile.
LatencyPercentile == 50

\* rotation_period given to Rotating::new, in ticks.
RotationPeriod == 2

\* The calls made through the Hedge and its clones: each Hedge::call yields
\* one ResponseFuture, and the two are driven concurrently.
Calls == {1, 2}
Times == 0..MaxTime

VARIABLES
    now,        \* clock::now()
    tracker,    \* the shared Arc<Mutex<Rotating<Histogram>>>
    fut,        \* fut[c]: the ResponseFuture of call c
    obs,        \* obs[c]: what call c has done so far (history)
    lock,       \* the Mutex around the tracker: 0 when free, else the holder
    pc,         \* pc[c]: where call c stands inside a step that takes the lock
    local       \* local[c]: what that step of call c holds on its stack

\* What the steps that take the lock add to the state.
lvars == <<lock, pc, local>>

vars == <<now, tracker, fut, obs, lock, pc, local>>

(* ----------------------------- Histogram ------------------------------ *)

\* A histogram counts the samples per duration.
EmptyHist == [d \in Times |-> 0]

RECURSIVE CountUpTo(_, _)
\* Number of samples of h with a duration of at most d.
CountUpTo(h, d) == IF d < 0 THEN 0 ELSE h[d] + CountUpTo(h, d - 1)

HistSize(h) == CountUpTo(h, MaxTime)

HistAdd(h, d) == [h EXCEPT ![d] = @ + 1]

RECURSIVE AddAll(_, _)
\* The histogram h with the samples recs added.
AddAll(h, recs) == IF recs = <<>> THEN h ELSE AddAll(HistAdd(h, Head(recs)), Tail(recs))

\* Rank of the percentile p among n samples: ceil(n * p / 100), at least 1.
Rank(n, p) ==
    LET q == (n * p + 99) \div 100 IN IF q < 1 THEN 1 ELSE q

\* Histogram::percentile(p, min): <<v>> when the histogram holds at least
\* min samples, v the smallest duration that covers the rank; else <<>>.
HistPercentile(h, p, min) ==
    IF HistSize(h) < min
    THEN <<>>
    ELSE <<CHOOSE d \in Times :
              /\ CountUpTo(h, d) >= Rank(HistSize(h), p)
              /\ \A e \in Times : e < d => CountUpTo(h, e) < Rank(HistSize(h), p)>>

(* ------------------------------ Rotating ------------------------------ *)

\* The buffer that is not the write buffer.
Other(i) == 3 - i

ReadBuf(tr) == tr.bufs[Other(tr.write_role)]

WriteBuf(tr) == tr.bufs[tr.write_role]

\* MaybeRotate with the buffer that becomes the write buffer left as it is.
MaybeRotateKeeps(tr, t) ==
    IF t - tr.last_rotation >= RotationPeriod
    THEN [bufs |-> tr.bufs, write_role |-> Other(tr.write_role), last_rotation |-> t]
    ELSE tr

\* MaybeRotate with last_rotation left as it is.
MaybeRotateStale(tr, t) ==
    IF t - tr.last_rotation >= RotationPeriod
    THEN [bufs |-> [tr.bufs EXCEPT ![Other(tr.write_role)] = EmptyHist],
          write_role |-> Other(tr.write_role),
          last_rotation |-> tr.last_rotation]
    ELSE tr

\* Lazy rotation at an access at time t: swap the roles, clear the buffer
\* that becomes the write buffer, restart the window.
MaybeRotate(tr, t) ==
    IF t - tr.last_rotation >= RotationPeriod
    THEN [bufs |-> [tr.bufs EXCEPT ![Other(tr.write_role)] = EmptyHist],
          write_role |-> Other(tr.write_role),
          last_rotation |-> t]
    ELSE tr

\* TrackerRecord with the sample added to the read side: histo.read().add.
TrackerRecordRead(tr, t, d) ==
    LET r == MaybeRotate(tr, t)
    IN  [r EXCEPT !.bufs[Other(r.write_role)] = HistAdd(@, d)]

\* histo.write().add(duration)
TrackerRecord(tr, t, d) ==
    LET r == MaybeRotate(tr, t)
    IN  [r EXCEPT !.bufs[r.write_role] = HistAdd(@, d)]

(* --------------------------- ResponseFuture --------------------------- *)

FutStates == {"pending", "ok", "err"}

\* A call that has not been made yet.
NoFuture ==
    [state |-> "idle", request |-> FALSE, start |-> 0, orig_fut |-> "pending",
     hedge_fut |-> "none", delay |-> "none", deadline |-> 0]

\* A future that has returned its result: the caller drops it, and with it
\* the two inner futures, the delay and the retained request.
Dropped(f) == [NoFuture EXCEPT !.state = "done", !.start = f.start]

\* What one poll() takes from its collaborators:
\*   ready  the outcome of hedge.poll_ready()
\*   retry  the answer of policy.can_retry(&req)
\*   clone  whether policy.clone_request(&req) yields a duplicate
\*   orig2  the original future when the loop polls it again after the
\*          hedge was issued
\*   hedge0 the hedge future at its first poll
PollInputs ==
    [ready : {"Ready", "NotReady", "Err"}, retry : BOOLEAN, clone : BOOLEAN,
     orig2 : FutStates, hedge0 : FutStates]

\* The answers a poll() of f can tell apart: an answer that f's poll() never
\* asks for is held at one value.
Unasked ==
    [ready |-> "NotReady", retry |-> FALSE, clone |-> FALSE,
     orig2 |-> "pending", hedge0 |-> "pending"]

AskedInputs(f) ==
    IF f.orig_fut = "pending" /\ f.hedge_fut = "none" /\ f.delay = "fired"
    THEN {Unasked, [Unasked EXCEPT !.ready = "Err"], [Unasked EXCEPT !.ready = "Ready"]}
         \cup (IF f.request
                THEN [ready : {"Ready"}, retry : {TRUE}, clone : BOOLEAN,
                      orig2 : FutStates, hedge0 : FutStates]
                ELSE {})
    ELSE {Unasked}

\* The outcome of one pass of the loop of poll(): the future's fields after
\* it, what poll() returns (ret; src names where the result comes from), the
\* durations recorded, the collaborators used (in order), and whether the
\* loop goes round again.
Pass(f, ret, src, recs, tr, cont) ==
    [f |-> f, ret |-> ret, src |-> src, recs |-> recs, tr |-> tr, cont |-> cont]

\* The Poll a finished inner future yields.
RetOf(futState) == IF futState = "ok" THEN "Ready" ELSE "Err"

\* The original future has completed: record and return its result.
OrigDone(f, t) ==
    Pass(f, RetOf(f.orig_fut), "orig", <<t - f.start>>,
         <<"orig:" \o f.orig_fut, "record">>, FALSE)

\* The hedge poll p adds to the histogram only when it is Ok(Ready).
HedgeRecorded(p) == p = "ok"

\* HedgePolled with the sample added twice, by record() and in place.
HedgePolledTwice(f, t) ==
    IF f.hedge_fut = "pending"
    THEN Pass(f, "NotReady", "none", <<>>, <<"hedge:pending">>, FALSE)
    ELSE Pass(f, RetOf(f.hedge_fut), "hedge", <<t - f.start, t - f.start>>,
              <<"hedge:" \o f.hedge_fut, "record", "record">>, FALSE)

\* HedgePolled with the hedge future taken out of self.hedge_fut to poll it
\* and not put back while it is pending.
HedgePolledTaken(f, t) ==
    IF f.hedge_fut = "pending"
    THEN Pass([f EXCEPT !.hedge_fut = "none"], "NotReady", "none", <<>>,
              <<"hedge:pending">>, FALSE)
    ELSE Pass(f, RetOf(f.hedge_fut), "hedge",
              IF HedgeRecorded(f.hedge_fut) THEN <<t - f.start>> ELSE <<>>,
              <<"hedge:" \o f.hedge_fut>>, FALSE)

\* HedgePolled with the latency of the hedge counted from the instant the
\* delay was due, not from the start of the original call.
HedgePolledSinceDeadline(f, t) ==
    IF f.hedge_fut = "pending"
    THEN Pass(f, "NotReady", "none", <<>>, <<"hedge:pending">>, FALSE)
    ELSE IF HedgeRecorded(f.hedge_fut)
         THEN Pass(f, RetOf(f.hedge_fut), "hedge", <<t - f.deadline>>,
                   <<"hedge:" \o f.hedge_fut, "record">>, FALSE)
         ELSE Pass(f, RetOf(f.hedge_fut), "hedge", <<>>,
                   <<"hedge:" \o f.hedge_fut>>, FALSE)

\* The hedge future exists: return whatever its poll yields.
HedgePolled(f, t) ==
    IF f.hedge_fut = "pending"
    THEN Pass(f, "NotReady", "none", <<>>, <<"hedge:pending">>, FALSE)
    ELSE IF HedgeRecorded(f.hedge_fut)
         THEN Pass(f, RetOf(f.hedge_fut), "hedge", <<t - f.start>>,
                   <<"hedge:" \o f.hedge_fut, "record">>, FALSE)
         ELSE Pass(f, RetOf(f.hedge_fut), "hedge", <<>>,
                   <<"hedge:" \o f.hedge_fut>>, FALSE)

\* NoDelay with a missing delay read as "hedge at once".
NoDelayHedges(f) ==
    Pass([f EXCEPT !.hedge_fut = "pending"], "NotReady", "none", <<>>,
         <<"delay:none", "call">>, FALSE)

\* self.delay.as_mut() is None: no delay, can't retry.
NoDelay(f) == Pass(f, "NotReady", "none", <<>>, <<"delay:none">>, FALSE)

\* DelayNotReady with the hedge issued before the delay is due.
DelayNotReadyHedges(f) ==
    IF f.request
    THEN Pass([f EXCEPT !.hedge_fut = "pending"], "NotReady", "none", <<>>,
              <<"delay:NotReady", "call">>, FALSE)
    ELSE Pass(f, "NotReady", "none", <<>>, <<"delay:NotReady">>, FALSE)

\* The delay is not due yet.
DelayNotReady(f) == Pass(f, "NotReady", "none", <<>>, <<"delay:NotReady">>, FALSE)

\* DelayErr with the timer error returned to the caller.
DelayErrSurfaced(f) == Pass(f, "Err", "delay", <<>>, <<"delay:Err">>, FALSE)

\* Timer error, don't retry.
DelayErr(f) == Pass(f, "NotReady", "none", <<>>, <<"delay:Err">>, FALSE)

\* NotReadyToHedge without the backpressure check: a handler that is not
\* ready is called all the same.
NotReadyIgnored(f, in) ==
    IF in.ready = "Err"
    THEN Pass(f, "Err", "ready", <<>>, <<"delay:Ready", "poll_ready:Err">>, FALSE)
    ELSE Pass([f EXCEPT !.hedge_fut = "pending"], "NotReady", "none", <<>>,
              <<"delay:Ready", "poll_ready:NotReady", "call">>, TRUE)

\* NotReadyToHedge with the readiness error dropped.
ReadinessErrorDropped(f, in) ==
    Pass(f, "NotReady", "none", <<>>, <<"delay:Ready", "poll_ready:" \o in.ready>>, FALSE)

\* try_ready!(self.hedge.poll_ready()) did not yield Ready.
NotReadyToHedge(f, in) ==
    IF in.ready = "Err"
    THEN Pass(f, "Err", "ready", <<>>, <<"delay:Ready", "poll_ready:Err">>, FALSE)
    ELSE Pass(f, "NotReady", "none", <<>>, <<"delay:Ready", "poll_ready:NotReady">>, FALSE)

\* TakeRequest with the policy's answer ignored.
TakeRequestUnasked(f, in) ==
    IF f.request
    THEN Pass([f EXCEPT !.request = in.clone, !.hedge_fut = "pending"],
              "NotReady", "none", <<>>,
              <<"delay:Ready", "poll_ready:Ready",
                IF in.retry THEN "can_retry:true" ELSE "can_retry:false",
                "clone_request", "call">>, TRUE)
    ELSE Pass(f, "NotReady", "none", <<>>,
              <<"delay:Ready", "poll_ready:Ready", "request:None">>, FALSE)

\* TakeRequest with a hedge issued although no request is retained.
TakeRequestMissing(f, in) ==
    IF f.request /\ ~in.retry
    THEN Pass([f EXCEPT !.request = TRUE], "NotReady", "none", <<>>,
              <<"delay:Ready", "poll_ready:Ready", "can_retry:false">>, FALSE)
    ELSE Pass([f EXCEPT !.request = in.clone, !.hedge_fut = "pending"],
              "NotReady", "none", <<>>,
              <<"delay:Ready", "poll_ready:Ready", "call">>, TRUE)

\* TakeRequest with poll() returning NotReady as soon as the hedge is
\* issued, the new hedge future left unpolled.
TakeRequestReturns(f, in) ==
    IF f.request
    THEN IF in.retry
         THEN Pass([f EXCEPT !.request = in.clone, !.hedge_fut = "pending"],
                   "NotReady", "none", <<>>,
                   <<"delay:Ready", "poll_ready:Ready", "can_retry:true",
                     "clone_request", "call">>, FALSE)
         ELSE Pass([f EXCEPT !.request = TRUE], "NotReady", "none", <<>>,
                   <<"delay:Ready", "poll_ready:Ready", "can_retry:false">>, FALSE)
    ELSE Pass(f, "NotReady", "none", <<>>,
              <<"delay:Ready", "poll_ready:Ready", "request:None">>, FALSE)

\* The taken request and the policy's answer: issue the hedge, or put the
\* request back.
TakeRequest(f, in) ==
    IF f.request
    THEN IF in.retry
         THEN Pass([f EXCEPT !.request = in.clone, !.hedge_fut = "pending"],
                   "NotReady", "none", <<>>,
                   <<"delay:Ready", "poll_ready:Ready", "can_retry:true",
                     "clone_request", "call">>, TRUE)
         ELSE Pass([f EXCEPT !.request = TRUE], "NotReady", "none", <<>>,
                   <<"delay:Ready", "poll_ready:Ready", "can_retry:false">>, FALSE)
    ELSE Pass(f, "NotReady", "none", <<>>,
              <<"delay:Ready", "poll_ready:Ready", "request:None">>, FALSE)

\* The hedge timeout is reached.
DelayReady(f, in) ==
    IF in.ready = "Ready" THEN TakeRequest(f, in) ELSE NotReadyToHedge(f, in)

\* The original is pending and the hedge has not started: check the delay.
DelayPolled(f, in) ==
    CASE f.delay = "none"   -> NoDelay(f)
      [] f.delay = "armed"  -> DelayNotReady(f)
      [] f.delay = "failed" -> DelayErr(f)
      [] f.delay = "fired"  -> DelayReady(f, in)

\* LoopPass with the hedge future polled before the original.
LoopPassHedgeFirst(f, in, t) ==
    IF f.hedge_fut # "none"
    THEN IF f.hedge_fut # "pending" \/ f.orig_fut = "pending"
         THEN LET r == HedgePolled(f, t)
              IN  [r EXCEPT !.tr = @ \o (IF f.hedge_fut = "pending"
                                         THEN <<"orig:pending">> ELSE <<>>)]
         ELSE OrigDone(f, t)
    ELSE IF f.orig_fut # "pending"
         THEN OrigDone(f, t)
         ELSE LET r == DelayPolled(f, in)
              IN  [r EXCEPT !.tr = <<"orig:pending">> \o @]

\* LoopPass with a call that cannot hedge (no delay, or a failed timer)
\* returning NotReady before it looks at the original.
LoopPassDelayFirst(f, in, t) ==
    IF f.hedge_fut = "none" /\ f.delay \in {"none", "failed"}
    THEN DelayPolled(f, in)
    ELSE IF f.orig_fut # "pending"
         THEN OrigDone(f, t)
         ELSE LET r == IF f.hedge_fut # "none" THEN HedgePolled(f, t) ELSE DelayPolled(f, in)
              IN  [r EXCEPT !.tr = <<"orig:pending">> \o @]

\* One pass of the loop of poll().
LoopPass(f, in, t) ==
    IF f.orig_fut # "pending"
    THEN OrigDone(f, t)
    ELSE LET r == IF f.hedge_fut # "none" THEN HedgePolled(f, t) ELSE DelayPolled(f, in)
         IN  [r EXCEPT !.tr = <<"orig:pending">> \o @]

\* The futures move on while poll() runs: where the two futures stand when
\* the loop comes round after issuing the hedge.
NextPass(f, in) == [f EXCEPT !.orig_fut = in.orig2, !.hedge_fut = in.hedge0]

RECURSIVE PollLoop(_, _, _)
\* poll(): the passes of the loop until one of them returns.
PollLoop(f, in, t) ==
    LET r == LoopPass(f, in, t)
    IN  IF r.cont
        THEN LET s == PollLoop(NextPass(r.f, in), in, t)
             IN  [s EXCEPT !.recs = r.recs \o @, !.tr = r.tr \o @]
        ELSE r

(* ------------------------------ history ------------------------------- *)

\* Nothing has happened yet for a call.  (abandoned: where the hedge future
\* stood when the original's result was returned; after_deferral: the last
\* poll issued the hedge and the poll before it was held back by the handler
\* or by the policy.)
NoObs ==
    [records |-> <<>>, returns |-> 0, result |-> <<>>, done_at |-> 0,
     handler_calls |-> 0, clone_none |-> FALSE, no_data |-> FALSE,
     ready_yielded |-> FALSE, retry_granted |-> FALSE, timer_failed |-> FALSE,
     abandoned |-> "none", after_deferral |-> FALSE,
     last |-> <<>>, last_ret |-> "none"]

\* Number of occurrences of e in the sequence tr.
Count(tr, e) == Cardinality({i \in 1..Len(tr) : tr[i] = e})

Has(tr, e) == \E i \in 1..Len(tr) : tr[i] = e

RECURSIVE RecordAll(_, _, _)
\* The tracker after the durations recs were recorded at time t.
RecordAll(tr, t, recs) ==
    IF recs = <<>> THEN tr
    ELSE RecordAll(TrackerRecord(tr, t, Head(recs)), t, Tail(recs))

(* ------------------------------ actions ------------------------------- *)

\* The <<read, write>> histograms the tracker can hold when the model
\* starts: a read side one sample short of MinSamples beside a write side
\* that is full already, and two full read sides with nothing written yet.
InitHists ==
    { <<[EmptyHist EXCEPT ![1] = MinSamples - 1], [EmptyHist EXCEPT ![2] = MinSamples]>>,
      <<[EmptyHist EXCEPT ![1] = MinSamples], EmptyHist>>,
      <<[EmptyHist EXCEPT ![1] = MinSamples - 6, ![2] = 6], EmptyHist>> }

Init ==
    /\ now = 0
    /\ \E h \in InitHists :
          tracker = [bufs |-> <<h[2], h[1]>>, write_role |-> 1, last_rotation |-> 0]
    /\ fut = [c \in Calls |-> NoFuture]
    /\ obs = [c \in Calls |-> NoObs]
    /\ lock = 0
    /\ pc = [c \in Calls |-> "out"]
    /\ local = [c \in Calls |-> <<>>]

\* Hedge::call for call c; cl tells whether the policy clones the request.
HedgeCall(c, cl) ==
    /\ fut[c].state = "idle"
    /\ \A b \in Calls : b < c => fut[b].state # "idle"
    /\ LET histo == MaybeRotate(tracker, now)
           hedge_timeout == HistPercentile(ReadBuf(histo), LatencyPercentile, MinSamples)
       IN  /\ tracker' = histo
           /\ fut' = [fut EXCEPT ![c] =
                        [state |-> "active", request |-> cl, start |-> now,
                         orig_fut |-> "pending", hedge_fut |-> "none",
                         delay |-> IF hedge_timeout = <<>> THEN "none" ELSE "armed",
                         deadline |-> IF hedge_timeout = <<>> THEN 0
                                      ELSE now + hedge_timeout[1]]]
           /\ obs' = [obs EXCEPT ![c] =
                        [NoObs EXCEPT !.handler_calls = 1, !.clone_none = ~cl,
                                      !.no_data = HistSize(ReadBuf(histo)) < MinSamples]]
    /\ UNCHANGED <<now, lvars>>

\* ResponseFuture::poll for call c with the collaborators' answers in.
Poll(c, in) ==
    /\ fut[c].state = "active"
    /\ LET r == PollLoop(fut[c], in, now)
       IN  /\ fut' = [fut EXCEPT ![c] =
                        IF r.ret = "NotReady" THEN r.f ELSE Dropped(r.f)]
           /\ tracker' = RecordAll(tracker, now, r.recs)
           /\ obs' = [obs EXCEPT ![c] =
                        [@ EXCEPT
                           !.records = @ \o r.recs,
                           !.returns = IF r.ret = "NotReady" THEN @ ELSE @ + 1,
                           !.result = IF r.ret = "NotReady" THEN @ ELSE <<r.src, r.ret>>,
                           !.done_at = IF r.ret = "NotReady" THEN @ ELSE now,
                           !.handler_calls = @ + Count(r.tr, "call"),
                           !.ready_yielded = @ \/ Has(r.tr, "poll_ready:Ready"),
                           !.retry_granted = @ \/ Has(r.tr, "can_retry:true"),
                           !.timer_failed = @ \/ Has(r.tr, "delay:Err"),
                           !.abandoned = IF r.src = "orig" THEN r.f.hedge_fut ELSE @,
                           !.after_deferral =
                               /\ r.ret = "NotReady" /\ Has(r.tr, "call")
                               /\ \/ Has(obs[c].last, "poll_ready:NotReady")
                                  \/ Has(obs[c].last, "can_retry:false"),
                           !.last = r.tr,
                           !.last_ret = r.ret]]
    /\ UNCHANGED <<now, lvars>>

\* The original future of call c completes with v.
OrigResolve(c, v) ==
    /\ fut[c].state = "active"
    /\ fut[c].orig_fut = "pending"
    /\ fut' = [fut EXCEPT ![c].orig_fut = v]
    /\ UNCHANGED <<now, tracker, obs, lvars>>

\* The hedge future of call c completes with v.
HedgeResolve(c, v) ==
    /\ fut[c].state = "active"
    /\ fut[c].hedge_fut = "pending"
    /\ fut' = [fut EXCEPT ![c].hedge_fut = v]
    /\ UNCHANGED <<now, tracker, obs, lvars>>

\* The timer fires the delay of call c, at its deadline or later.
DelayFire(c) ==
    /\ fut[c].state = "active"
    /\ fut[c].delay = "armed"
    /\ now >= fut[c].deadline
    /\ fut' = [fut EXCEPT ![c].delay = "fired"]
    /\ UNCHANGED <<now, tracker, obs, lvars>>

\* The timer fails the delay of call c (shutdown, or at capacity).
TimerFail(c) ==
    /\ fut[c].state = "active"
    /\ fut[c].delay = "armed"
    /\ fut' = [fut EXCEPT ![c].delay = "failed"]
    /\ UNCHANGED <<now, tracker, obs, lvars>>

\* The clock advances.
Tick ==
    /\ now < MaxTime
    /\ now' = now + 1
    /\ UNCHANGED <<tracker, fut, obs, lvars>>

Next ==
    \/ \E c \in Calls, cl \in BOOLEAN : HedgeCall(c, cl)
    \/ \E c \in Calls : \E in \in AskedInputs(fut[c]) : Poll(c, in)
    \/ \E c \in Calls, v \in {"ok", "err"} : OrigResolve(c, v)
    \/ \E c \in Calls, v \in {"ok", "err"} : HedgeResolve(c, v)
    \/ \E c \in Calls : DelayFire(c)
    \/ \E c \in Calls : TimerFail(c)
    \/ Tick

Spec == Init /\ [][Next]_vars

(* ----------------------- steps that take the lock --------------------- *)

\* Where a call waits for latency_histogram.lock(), and where it holds the
\* guard: in Hedge::call, in record(), in the hedge branch of poll().
Waiting == {"call:lock", "record:lock", "hedge:lock"}

Holding == {"call:locked", "record:write", "hedge:write"}

\* The answers the handler and the policy give while the steps under the
\* lock are followed: the handler is ready or not, the policy permits.
LockInputs(f) ==
    {in \in AskedInputs(f) :
        /\ in.ready # "Err" /\ ~in.clone
        /\ in.orig2 = "pending" /\ in.hedge0 = "pending"}

\* CanLock with lock() not waiting for the holder.
CanLockBarging(c) == TRUE

\* Mutex::lock() returns for call c once the mutex is free.
CanLock(c) == lock = 0

\* Unlocked with the guard kept by call c beyond the step.
UnlockedKept(c) == c

\* The mutex after call c has dropped its guard.
Unlocked(c) == 0

\* Hedge::call up to the lock: the request is cloned, the original is
\* started and the clock is read.
CallStart(c, cl) ==
    /\ fut[c].state = "idle"
    /\ \A b \in Calls : b < c => fut[b].state # "idle"
    /\ fut' = [fut EXCEPT ![c] =
                 [NoFuture EXCEPT !.state = "calling", !.request = cl, !.start = now]]
    /\ obs' = [obs EXCEPT ![c] =
                 [NoObs EXCEPT !.handler_calls = 1, !.clone_none = ~cl]]
    /\ pc' = [pc EXCEPT ![c] = "call:lock"]
    /\ UNCHANGED <<now, tracker, lock, local>>

\* latency_histogram.lock().unwrap() returns to call c; in record() and in
\* the hedge branch histo.write() follows at once: the rotation check, and
\* the write side as call c finds it.
Lock(c) ==
    /\ pc[c] \in Waiting
    /\ CanLock(c)
    /\ lock' = c
    /\ pc' = [pc EXCEPT ![c] =
                CASE pc[c] = "call:lock"   -> "call:locked"
                  [] pc[c] = "record:lock" -> "record:write"
                  [] pc[c] = "hedge:lock"  -> "hedge:write"]
    /\ local' = [local EXCEPT ![c] =
                   IF pc[c] = "call:lock" THEN @ ELSE @ \o <<MaybeRotate(tracker, now)>>]
    /\ UNCHANGED <<now, tracker, fut, obs>>

\* Hedge::call under the lock: the percentile of the read side, the delay,
\* and the ResponseFuture; the guard is dropped as call returns.
CallThreshold(c) ==
    /\ pc[c] = "call:locked"
    /\ LET histo == MaybeRotate(tracker, now)
           hedge_timeout == HistPercentile(ReadBuf(histo), LatencyPercentile, MinSamples)
       IN  /\ tracker' = histo
           /\ fut' = [fut EXCEPT ![c] =
                        [@ EXCEPT !.state = "active",
                                  !.delay = IF hedge_timeout = <<>> THEN "none" ELSE "armed",
                                  !.deadline = IF hedge_timeout = <<>> THEN 0
                                               ELSE fut[c].start + hedge_timeout[1]]]
           /\ obs' = [obs EXCEPT ![c].no_data = HistSize(ReadBuf(histo)) < MinSamples]
    /\ lock' = Unlocked(c)
    /\ pc' = [pc EXCEPT ![c] = "out"]
    /\ UNCHANGED <<now, local>>

\* poll() up to the lock: a poll that records nothing runs to its return;
\* one that records has computed the duration and asks for the lock.
PollStart(c, in) ==
    /\ fut[c].state = "active"
    /\ LET r == PollLoop(fut[c], in, now)
       IN  IF r.recs = <<>>
           THEN Poll(c, in)
           ELSE /\ fut' = [fut EXCEPT ![c].state = "polling"]
                /\ local' = [local EXCEPT ![c] = <<r>>]
                /\ pc' = [pc EXCEPT ![c] =
                            IF r.src = "orig" THEN "record:lock" ELSE "hedge:lock"]
                /\ UNCHANGED <<now, tracker, obs, lock>>

\* .add(duration) on the write side found, the guard dropped, and poll()
\* returns the result.
HistoAdd(c) ==
    /\ pc[c] \in {"record:write", "hedge:write"}
    /\ LET r == local[c][1]
           histo == local[c][2]
       IN  /\ tracker' = [histo EXCEPT !.bufs[histo.write_role] = AddAll(@, r.recs)]
           /\ fut' = [fut EXCEPT ![c] = Dropped(r.f)]
           /\ obs' = [obs EXCEPT ![c] =
                        [@ EXCEPT
                           !.records = @ \o r.recs,
                           !.returns = @ + 1,
                           !.result = <<r.src, r.ret>>,
                           !.done_at = r.f.start + r.recs[1],
                           !.handler_calls = @ + Count(r.tr, "call"),
                           !.ready_yielded = @ \/ Has(r.tr, "poll_ready:Ready"),
                           !.retry_granted = @ \/ Has(r.tr, "can_retry:true"),
                           !.abandoned = IF r.src = "orig" THEN r.f.hedge_fut ELSE @,
                           !.after_deferral = FALSE,
                           !.last = r.tr,
                           !.last_ret = r.ret]]
    /\ lock' = Unlocked(c)
    /\ pc' = [pc EXCEPT ![c] = "out"]
    /\ local' = [local EXCEPT ![c] = <<>>]
    /\ UNCHANGED now

LockNext ==
    \/ \E c \in Calls, cl \in BOOLEAN : CallStart(c, cl)
    \/ \E c \in Calls : Lock(c)
    \/ \E c \in Calls : CallThreshold(c)
    \/ \E c \in Calls : \E in \in LockInputs(fut[c]) : PollStart(c, in)
    \/ \E c \in Calls : HistoAdd(c)
    \/ \E c \in Calls, v \in {"ok", "err"} : OrigResolve(c, v)
    \/ \E c \in Calls, v \in {"ok", "err"} : HedgeResolve(c, v)
    \/ \E c \in Calls : DelayFire(c)
    \/ Tick

\* (The tracker starts with a full read side and nothing written.)
LockInit ==
    /\ Init
    /\ ReadBuf(tracker) = [EmptyHist EXCEPT ![1] = MinSamples]

LockSpec == LockInit /\ [][LockNext]_vars

(* ---------------------------- properties ------------------------------ *)

Done(c) == fut[c].state = "done"

Active(c) == fut[c].state = "active"

\* The elapsed time of call c when it returned.
Elapsed(c) == obs[c].done_at - fut[c].start

\* C1: every call that has returned a terminal result has recorded exactly
\* one sample into the tracker, the time elapsed since its start.
C1_OneRecordPerCall ==
    \A c \in Calls : Done(c) => obs[c].records = <<Elapsed(c)>>

\* C2 as claimed: a call returns at most once, records at most once, and
\* what it returns is the result of its original or of its hedge.
C2_ResultOfOneOperation ==
    \A c \in Calls :
        /\ obs[c].returns <= 1
        /\ Len(obs[c].records) <= 1
        /\ Done(c) => obs[c].returns = 1 /\ obs[c].result[1] \in {"orig", "hedge"}

\* C2 amended: a call returns at most once, records at most once, and what
\* it returns is the result of its original, the result of its hedge, or the
\* readiness error of the handler.
C2_SingleResult ==
    \A c \in Calls :
        /\ obs[c].returns <= 1
        /\ Len(obs[c].records) <= 1
        /\ Done(c) =>
              /\ obs[c].returns = 1
              /\ obs[c].result[1] \in {"orig", "hedge", "ready"}
              /\ obs[c].result[1] = "ready" => obs[c].result[2] = "Err"

\* A hedge was in flight when the call returned the result of its original
\* and recorded it: the hedge was abandoned.
C2_Witness ==
    \E c \in Calls :
        /\ Done(c)
        /\ obs[c].handler_calls = 2
        /\ obs[c].result[1] = "orig"
        /\ Len(obs[c].records) = 1

\* C3: a call that returned the error of its hedge has recorded the elapsed
\* time, as a call that returned the response of its hedge has.
C3_HedgeErrorRecorded ==
    \A c \in Calls :
        Done(c) /\ obs[c].result[1] = "hedge" => obs[c].records = <<Elapsed(c)>>

\* C4: a call made while the read buffer held fewer than MinSamples samples
\* has no delay and never issues a hedge.
C4_NoDataNoHedge ==
    \A c \in Calls :
        obs[c].no_data =>
            /\ obs[c].handler_calls = 1
            /\ Active(c) => fut[c].delay = "none" /\ fut[c].hedge_fut = "none"

\* A call without data was polled a window later, after another call had
\* recorded a sample and the tracker had rotated.
C4_Witness ==
    \E c \in Calls :
        /\ obs[c].no_data /\ Active(c)
        /\ Has(obs[c].last, "delay:none")
        /\ now - fut[c].start >= RotationPeriod
        /\ tracker.last_rotation > fut[c].start
        /\ \E b \in Calls : Done(b) /\ Len(obs[b].records) = 1

\* C5 as claimed: a call whose request the policy did not clone never
\* issues a hedge and returns nothing but the result of its original.
C5_OriginalAlone ==
    \A c \in Calls :
        obs[c].clone_none =>
            /\ obs[c].handler_calls = 1
            /\ Done(c) => obs[c].result[1] = "orig"

\* C5 amended: a call whose request the policy did not clone never issues a
\* hedge, and returns the result of its original or, when the handler's
\* readiness fails after the delay fired, that readiness error.
C5_NoCloneNoHedge ==
    \A c \in Calls :
        obs[c].clone_none =>
            /\ obs[c].handler_calls = 1
            /\ Active(c) => fut[c].hedge_fut = "none" /\ ~fut[c].request
            /\ Done(c) => obs[c].result[1] \in {"orig", "ready"}

\* The delay fired, the handler was ready, and the poll found no request.
C5_Witness ==
    \E c \in Calls :
        /\ obs[c].clone_none /\ Active(c)
        /\ Has(obs[c].last, "request:None")

\* C6: while the policy has denied every retry, no hedge is issued, and a
\* poll that was denied leaves the duplicate retained and returns NotReady.
C6_DeniedNoHedge ==
    \A c \in Calls :
        /\ ~obs[c].retry_granted =>
              /\ obs[c].handler_calls <= 1
              /\ Active(c) => fut[c].hedge_fut = "none"
        /\ Has(obs[c].last, "can_retry:false") =>
              /\ Active(c) /\ fut[c].request /\ fut[c].hedge_fut = "none"
              /\ obs[c].last_ret = "NotReady"

\* The policy denied the retry in the last poll, after the delay's deadline.
C6_Witness ==
    \E c \in Calls :
        /\ Has(obs[c].last, "can_retry:false")
        /\ ~obs[c].retry_granted
        /\ now > fut[c].deadline

\* C7 as claimed: while the handler has never been ready, no hedge is
\* issued and a call returns nothing but the result of its original.
C7_OriginalOnly ==
    \A c \in Calls :
        ~obs[c].ready_yielded =>
            /\ obs[c].handler_calls <= 1
            /\ Done(c) => obs[c].result[1] = "orig"

\* C7 amended: while the handler has never been ready, no hedge is issued,
\* and a call returns the result of its original or the handler's
\* readiness error.
C7_NotReadyNoHedge ==
    \A c \in Calls :
        ~obs[c].ready_yielded =>
            /\ obs[c].handler_calls <= 1
            /\ Active(c) => fut[c].hedge_fut = "none"
            /\ Done(c) => obs[c].result[1] \in {"orig", "ready"}

\* The delay fired and the handler was not ready in the last poll.
C7_Witness ==
    \E c \in Calls :
        /\ Active(c) /\ fut[c].request
        /\ Has(obs[c].last, "poll_ready:NotReady")
        /\ ~obs[c].ready_yielded

\* C8: a poll that meets a timer failure returns NotReady, and a call that
\* has met one never issues a hedge and returns the result of its original.
C8_TimerFailureNoHedge ==
    \A c \in Calls :
        /\ Has(obs[c].last, "delay:Err") => Active(c) /\ obs[c].last_ret = "NotReady"
        /\ obs[c].timer_failed =>
              /\ obs[c].handler_calls = 1
              /\ Active(c) => fut[c].hedge_fut = "none"
              /\ Done(c) => obs[c].result[1] = "orig"

\* A call that met a timer failure returned the result of its original
\* after its deadline, with a duplicate retained.
C8_Witness ==
    \E c \in Calls :
        /\ obs[c].timer_failed /\ Done(c) /\ ~obs[c].clone_none
        /\ obs[c].done_at > fut[c].start

\* C9: a poll in which the handler's readiness fails returns that error as
\* the call's result, issues no hedge and does not ask the policy.
C9_ReadinessErrorSurfaced ==
    \A c \in Calls :
        Has(obs[c].last, "poll_ready:Err") =>
            /\ Done(c)
            /\ obs[c].last_ret = "Err"
            /\ obs[c].result = <<"ready", "Err">>
            /\ obs[c].handler_calls = 1
            /\ ~Has(obs[c].last, "can_retry:true")
            /\ ~Has(obs[c].last, "can_retry:false")
            /\ ~Has(obs[c].last, "call")

\* The readiness failed for a call with a retained duplicate.
C9_Witness ==
    \E c \in Calls :
        /\ Has(obs[c].last, "poll_ready:Err")
        /\ ~obs[c].clone_none

\* C10: the handler is called at most twice for one call.
C10_AtMostOneHedge ==
    \A c \in Calls : obs[c].handler_calls <= 2

\* The hedge is in flight, a fresh duplicate is retained, and the call was
\* polled again after the poll that issued the hedge.
C10_Witness ==
    \E c \in Calls :
        /\ Active(c) /\ obs[c].handler_calls = 2
        /\ fut[c].request /\ fut[c].delay = "fired"
        /\ obs[c].last = <<"orig:pending", "hedge:pending">>

\* C11: a call that returned the response of its hedge has recorded exactly
\* one sample, the time from the start of the original call to the poll
\* that found the hedge ready.
C11_HedgeResponseRecorded ==
    \A c \in Calls :
        Done(c) /\ obs[c].result = <<"hedge", "Ready">> =>
            /\ obs[c].records = <<obs[c].done_at - fut[c].start>>
            /\ obs[c].handler_calls = 2

\* The hedge answered MaxTime ticks after the original call started, later
\* than it was due.
C11_Witness ==
    \E c \in Calls :
        /\ Done(c) /\ obs[c].result = <<"hedge", "Ready">>
        /\ obs[c].records = <<MaxTime>>
        /\ obs[c].last = <<"orig:pending", "hedge:ok", "record">>

\* What a poll that issues the hedge uses up to the handler call.
IssuePrefix ==
    <<"orig:pending", "delay:Ready", "poll_ready:Ready", "can_retry:true",
      "clone_request", "call">>

HedgeEvents == {"hedge:pending", "hedge:ok", "hedge:err"}

\* C16: in every poll the original is polled first and the hedge only right
\* after the original was found pending; a poll that finds both the
\* original and the hedge complete returns and records the original's
\* result, and a hedge result is surfaced only by a poll that found the
\* original pending.
C16_OriginalPolledFirst ==
    /\ [](\A c \in Calls :
             /\ obs[c].last # <<>> =>
                   obs[c].last[1] \in {"orig:pending", "orig:ok", "orig:err"}
             /\ \A i \in 1..Len(obs[c].last) :
                   obs[c].last[i] \in HedgeEvents =>
                       i > 1 /\ obs[c].last[i - 1] = "orig:pending"
             /\ Done(c) /\ obs[c].result[1] = "hedge" =>
                   \E i \in 2..Len(obs[c].last) :
                       /\ obs[c].last[i] \in HedgeEvents
                       /\ obs[c].last[i - 1] = "orig:pending")
    /\ [][\A c \in Calls :
             /\ Active(c) /\ fut[c].orig_fut # "pending"
             /\ fut[c].hedge_fut \in {"ok", "err"}
             /\ obs'[c] # obs[c]
             => /\ Done(c)'
                /\ obs'[c].result = <<"orig", RetOf(fut[c].orig_fut)>>
                /\ obs'[c].records = obs[c].records \o <<now - fut[c].start>>
                /\ obs'[c].last = <<"orig:" \o fut[c].orig_fut, "record">>
                /\ obs'[c].abandoned = fut[c].hedge_fut]_vars

\* A call returned the response of its original from a poll that began
\* with both the original and the hedge complete, the hedge with an error.
C16_Witness ==
    \E c \in Calls :
        /\ Done(c) /\ obs[c].result = <<"orig", "Ready">>
        /\ obs[c].abandoned = "err"
        /\ obs[c].handler_calls = 2
        /\ obs[c].last = <<"orig:ok", "record">>

\* C17: a hedge exists only for a call whose delay was armed and has fired,
\* whose handler has reported Ready, whose duplicate was retained and whose
\* retry the policy permitted; the poll that calls the handler for the
\* hedge finds the original pending, the delay fired, the handler Ready and
\* the policy permitting, in that order, before the call.
C17_HedgeOnlyAfterDelay ==
    \A c \in Calls :
        /\ Active(c) /\ fut[c].hedge_fut # "none" =>
              /\ fut[c].delay = "fired"
              /\ now >= fut[c].deadline /\ fut[c].deadline >= fut[c].start
              /\ obs[c].handler_calls = 2
        /\ obs[c].handler_calls = 2 =>
              /\ ~obs[c].no_data /\ ~obs[c].clone_none /\ ~obs[c].timer_failed
              /\ obs[c].ready_yielded /\ obs[c].retry_granted
        /\ Has(obs[c].last, "call") =>
              /\ Len(obs[c].last) > Len(IssuePrefix)
              /\ SubSeq(obs[c].last, 1, Len(IssuePrefix)) = IssuePrefix
              /\ Count(obs[c].last, "call") = 1

\* The hedge was issued by the last poll, at the deadline of the delay, and
\* is in flight.
C17_Witness ==
    \E c \in Calls :
        /\ Active(c) /\ fut[c].hedge_fut = "pending"
        /\ Has(obs[c].last, "call")
        /\ now = fut[c].deadline /\ fut[c].deadline > fut[c].start

\* What the loop does after it has issued the hedge: the original, then the
\* hedge.
AfterIssue ==
    { <<"orig:ok", "record">>, <<"orig:err", "record">>,
      <<"orig:pending", "hedge:pending">>, <<"orig:pending", "hedge:ok", "record">>,
      <<"orig:pending", "hedge:err">> }

\* C18: every poll of a call whose delay has fired, whose original is
\* pending and whose hedge is not issued asks the handler again, and asks
\* the policy when the handler is Ready and a duplicate is retained; when
\* the policy permits, the hedge is issued in that poll, and the same poll
\* goes on to poll the original and then the hedge.
C18_DeferredHedgeRetried ==
    /\ [](\A c \in Calls :
             Has(obs[c].last, "can_retry:true") =>
                \E rest \in AfterIssue : obs[c].last = IssuePrefix \o rest)
    /\ [][\A c \in Calls :
             /\ Active(c) /\ fut[c].delay = "fired"
             /\ fut[c].orig_fut = "pending" /\ fut[c].hedge_fut = "none"
             /\ obs'[c] # obs[c]
             => /\ Len(obs'[c].last) >= 3
                /\ SubSeq(obs'[c].last, 1, 2) = <<"orig:pending", "delay:Ready">>
                /\ obs'[c].last[3] \in
                      {"poll_ready:Ready", "poll_ready:NotReady", "poll_ready:Err"}
                /\ obs'[c].last[3] = "poll_ready:Ready" /\ fut[c].request =>
                      /\ Len(obs'[c].last) >= 4
                      /\ obs'[c].last[4] \in {"can_retry:true", "can_retry:false"}
                /\ Has(obs'[c].last, "can_retry:true") =>
                      /\ obs'[c].handler_calls = obs[c].handler_calls + 1
                      /\ Done(c)' \/ fut'[c].hedge_fut # "none"]_vars

\* The hedge was issued by the poll that followed a poll held back by the
\* handler or the policy, and that poll went on to poll the original and
\* the new hedge.
C18_Witness ==
    \E c \in Calls :
        /\ Active(c) /\ obs[c].after_deferral
        /\ obs[c].last = IssuePrefix \o <<"orig:pending", "hedge:pending">>

\* Some poll of call c that changes the state.
Polled(c) == \E in \in AskedInputs(fut[c]) : Poll(c, in)

\* The executor keeps polling every call whose poll has something to do.
\* Hedge::call for a call that is made once the calls before it have
\* returned: whether a call returns rests on its own future alone.
NextCall(c, cl) ==
    /\ \A b \in Calls : b < c => Done(b)
    /\ HedgeCall(c, cl)

FairNext ==
    \/ \E c \in Calls, cl \in BOOLEAN : NextCall(c, cl)
    \/ \E c \in Calls : Polled(c)
    \/ \E c \in Calls, v \in {"ok", "err"} : OrigResolve(c, v)
    \/ \E c \in Calls, v \in {"ok", "err"} : HedgeResolve(c, v)
    \/ \E c \in Calls : DelayFire(c)
    \/ \E c \in Calls : TimerFail(c)
    \/ Tick

FairSpec == Init /\ [][FairNext]_vars /\ \A c \in Calls : WF_vars(Polled(c))

\* C20: a call whose original has resolved and that keeps being polled
\* returns a terminal result, wherever its delay, its hedge, the handler
\* and the policy stand.
C20_ReturnsOnceOriginalResolves ==
    \A c \in Calls : (Active(c) /\ fut[c].orig_fut # "pending") ~> Done(c)

\* A call returned the result of its original while its hedge was still
\* pending, after the clock had reached its bound.
C20_Witness ==
    \E c \in Calls :
        /\ Done(c) /\ obs[c].result[1] = "orig"
        /\ obs[c].abandoned = "pending"
        /\ obs[c].done_at = MaxTime

(* ------------------------- tracker properties ------------------------- *)

\* threshold(percentile, min_samples) of a tracker, the lazy rotation aside.
Threshold(tr) == HistPercentile(ReadBuf(tr), LatencyPercentile, MinSamples)

\* The step rotates the tracker.
Rotated == tracker'.write_role # tracker.write_role

\* The samples call c records in the step.
StepRecs(c) == SubSeq(obs'[c].records, Len(obs[c].records) + 1, Len(obs'[c].records))

\* The write buffer after the step holds the samples of the step only.
FreshWindow ==
    \E c \in Calls :
        /\ WriteBuf(tracker') = AddAll(EmptyHist, StepRecs(c))
        /\ \A b \in Calls \ {c} : StepRecs(b) = <<>>

\* C12 as claimed: after a rotation, threshold() is what it would be had
\* none of the samples recorded before the rotation been recorded.
C12_EarlierSamplesForgotten ==
    [][Rotated => Threshold(tracker') = HistPercentile(EmptyHist, LatencyPercentile, MinSamples)]_vars

\* C12 amended: a rotation drops the samples the read buffer held (those
\* recorded before the previous rotation); the read buffer becomes what was
\* written during the window the rotation closes.
C12_ReadWindowForgotten ==
    [][Rotated => ReadBuf(tracker') = WriteBuf(tracker) /\ FreshWindow]_vars

\* The tracker rotated: the full window written before the rotation now
\* decides threshold(), and the call made then is armed by it.
C12_Witness ==
    /\ tracker.last_rotation > 0
    /\ Threshold(tracker) = <<2>>
    /\ \E c \in Calls : Active(c) /\ fut[c].start = tracker.last_rotation
                        /\ fut[c].deadline = fut[c].start + 2

\* C13: what Hedge::call gets from threshold() is a value exactly when the
\* read buffer, after the rotation check, holds MinSamples samples, the
\* value is the percentile of that buffer, and a step that does not rotate
\* leaves the read buffer as it was, whatever it records.
C13_ThresholdFromReadBuffer ==
    [][/\ ~Rotated => ReadBuf(tracker') = ReadBuf(tracker)
       /\ \A c \in Calls :
             fut[c].state = "idle" /\ fut'[c].state = "active" =>
                /\ fut'[c].delay = "armed" <=> HistSize(ReadBuf(tracker')) >= MinSamples
                /\ fut'[c].delay = "armed" =>
                      fut'[c].deadline = now + Threshold(tracker')[1]
                /\ fut'[c].delay # "armed" => fut'[c].delay = "none"]_vars

\* A call found no data although the write buffer held more than MinSamples
\* samples, one of them recorded by the other call before.
C13_Witness ==
    \E c, b \in Calls :
        /\ Active(c) /\ obs[c].no_data
        /\ Done(b) /\ Len(obs[b].records) = 1 /\ obs[b].done_at <= fut[c].start
        /\ tracker.last_rotation = 0
        /\ HistSize(WriteBuf(tracker)) > MinSamples

\* C14: one buffer is the write buffer and the other the read buffer; the
\* roles change only when rotation_period has passed since last_rotation,
\* and then last_rotation is the time of the access and the new write
\* buffer holds nothing but what that access records after rotating.
C14_RolesFlipAtRotation ==
    /\ [](/\ tracker.write_role \in {1, 2}
          /\ DOMAIN tracker.bufs = {1, 2}
          /\ Other(tracker.write_role) \in {1, 2} \ {tracker.write_role}
          /\ LET r == MaybeRotate(tracker, now)
             IN  r.write_role # tracker.write_role =>
                    WriteBuf(r) = EmptyHist /\ r.last_rotation = now)
    /\ [][/\ Rotated =>
                /\ now - tracker.last_rotation >= RotationPeriod
                /\ tracker'.last_rotation = now
                /\ FreshWindow
          /\ ~Rotated => tracker'.last_rotation = tracker.last_rotation]_vars

\* The tracker has rotated at a threshold() access: the second buffer is
\* the write buffer and is empty.
C14_Witness ==
    /\ tracker.last_rotation >= RotationPeriod
    /\ tracker.write_role = 2
    /\ WriteBuf(tracker) = EmptyHist
    /\ HistSize(ReadBuf(tracker)) > 0

(* --------------------------- lock properties -------------------------- *)

\* The write side the samples of a step are added to.
WriteBase == IF Rotated THEN EmptyHist ELSE WriteBuf(tracker)

\* C15: the calls share the one tracker: at most one call is inside a
\* record, a threshold or a rotation at a time, and it holds the lock;
\* every step leaves the write buffer as it was (empty, if the step
\* rotates) plus exactly the samples the step records, and a step without
\* a rotation leaves the read buffer alone.
C15_SharedTrackerNoLostUpdate ==
    /\ [](\A c, b \in Calls :
             /\ pc[c] \in Holding /\ pc[b] \in Holding => c = b
             /\ pc[c] \in Holding => lock = c)
    /\ [][/\ \E c \in Calls :
                /\ \A b \in Calls \ {c} : StepRecs(b) = <<>>
                /\ WriteBuf(tracker') = AddAll(WriteBase, StepRecs(c))
                /\ StepRecs(c) # <<>> => pc[c] \in Holding /\ lock = c
          /\ ~Rotated => ReadBuf(tracker') = ReadBuf(tracker)
          /\ Rotated => \E c \in Calls : pc[c] \in Holding /\ lock = c]_vars

\* Two calls made at the same instant have both recorded in the same
\* window: the write buffer holds the two samples.
C15_Witness ==
    /\ \A c \in Calls : Done(c) /\ Len(obs[c].records) = 1
    /\ fut[1].start = fut[2].start
    /\ obs[1].done_at = obs[2].done_at
    /\ tracker.last_rotation = 0
    /\ HistSize(WriteBuf(tracker)) = 2

\* C19: the lock is taken only by a call waiting for it in Hedge::call, in
\* record() or in the hedge branch, and only when it is free; it is given
\* up by the step that ends that call or poll; a call outside these steps
\* (idle, pending or returned) never holds it, a call never waits for a
\* lock it holds, and whenever a call waits, either it can take the lock
\* or the holder can take the step that gives it up.
C19_LockDiscipline ==
    /\ [](/\ lock \in {0} \cup Calls
          /\ lock # 0 => pc[lock] \in Holding
          /\ \A c \in Calls :
                /\ pc[c] \notin Holding => lock # c
                /\ pc[c] = "out" => fut[c].state \in {"idle", "active", "done"}
                /\ fut[c].state \in {"idle", "active", "done"} => pc[c] = "out"
                /\ pc[c] \in Waiting =>
                      \/ ENABLED Lock(c)
                      \/ \E b \in Calls \ {c} :
                            lock = b /\ ENABLED (CallThreshold(b) \/ HistoAdd(b)))
    /\ [][lock' # lock =>
             /\ lock' # 0 =>
                   /\ lock = 0
                   /\ pc[lock'] \in Waiting /\ pc'[lock'] \in Holding
             /\ lock' = 0 =>
                   /\ pc[lock] \in Holding /\ pc'[lock] = "out"
                   /\ fut'[lock].state \in {"active", "done"}]_vars

\* A call waits in Hedge::call for the lock that another call holds in the
\* hedge branch of its poll.
C19_Witness ==
    \E c, b \in Calls :
        /\ pc[c] = "call:lock"
        /\ lock = b /\ pc[b] = "hedge:write"

====
